---- MODULE Spec2Model ----
(***************************************************************************)
(* Model of crypto_utils/price.py: the three price resolvers               *)
(*   CoingeckoPriceProvider.get_price_of_contract_in_usd  (retry on 429)   *)
(*   UniswapPriceProvider / UniswapTransactionValueUsdProvider (v3 -> v2)  *)
(* together with crypto_utils/http_utils.request.                          *)
(*                                                                         *)
(* Conventions                                                             *)
(*   - a Python exception is a record [exc, msg, origin]; origin is the    *)
(*     identity of the object that raised it;                              *)
(*   - a Python list is a sequence, so list[0] is s[1] and list[-1] is     *)
(*     s[Len(s)]; a [timestamp_ms, price] point is a pair <<t, p>>;        *)
(*   - a Python str that is parsed is a sequence of one-character strings; *)
(*   - a float obtained by float(str) is kept as an integer number of      *)
(*     hundredths (123.45 is 12345);                                       *)
(*   - a naive datetime is its wall-clock reading in seconds; the process's *)
(*     time zone (TZ) gives the UTC offset of every instant.               *)
(***************************************************************************)
EXTENDS Integers, Sequences, FiniteSets, TLC

VARIABLES
    pc,          \* "idle", "cg_loop" (inside _request_price_json), "v3", "v2", "done"
    call,        \* entry point invoked: "none", "coingecko", "uniswap"
    args,        \* arguments of the call
    url,         \* request built by get_price_of_contract_in_usd
    requests,    \* number of http_utils.request calls issued
    sleeps,      \* number of time.sleep calls performed
    slept,       \* total time slept
    responses,   \* status codes answered by the transport, in order
    json,        \* body of the last 200 response
    stdout,      \* lines printed
    debug_log,   \* lines logged at debug level
    queried,     \* subgraph providers queried, in order
    v3_response, \* what the v3 subgraph answered
    v2_response, \* what the v2 subgraph answered
    v3_outcome,  \* outcome of the v3 provider's get_usd_value_of_transaction
    v2_outcome,  \* outcome of the v2 provider's get_usd_value_of_transaction
    result,      \* outcome of the call as the caller sees it
    tz,          \* local time zone of the process
    params,      \* query parameters built by get_price_of_token
    klines       \* body of the 200 response to get_price_of_token

vars == <<pc, call, args, url, requests, sleeps, slept, responses, json, stdout,
          debug_log, queried, v3_response, v2_response, v3_outcome, v2_outcome,
          result, tz, params, klines>>

----------------------------------------------------------------------------
(* Bounds of the model *)

\* most 429 answers the transport gives within one call
MaxRetries == 3
\* most points in a "prices" series
MaxSeries == 3
\* most swap records in a subgraph answer
MaxSwaps == 2
\* most candles in a klines answer
MaxCandles == 2
\* most fields in a candle
MaxCandleLen == 6

----------------------------------------------------------------------------
(* Program constants *)

\* time.sleep(3)
BACKOFF == 3
\* status that http_utils.request treats as success
HTTP_OK == 200
\* status that _request_price_json retries
RATE_LIMITED == 429
\* timedelta(days=1), in seconds
DAY_SECONDS == 86400
\* timedelta(hours=1), in milliseconds
HOUR_MS == 3600000
\* last_price_array[0] / 1000.0, and timestamp() * 1000
MS_PER_SECOND == 1000
\* timedelta(minutes=1), in seconds
MINUTE_SECONDS == 60
\* "limit": 1
KLINES_LIMIT == 1
\* single_candle_info[4], counted from 1
CLOSE_FIELD == 5

----------------------------------------------------------------------------
(* Inputs *)

Blockchain == {"ETHEREUM"}
\* values a caller can pass as blockchain: the members above, the str
\* 'UNMAPPED' (no member, no ETHEREUM attribute) and the enum class itself
\* (no member, but it has an ETHEREUM attribute)
BlockchainInputs == Blockchain \cup {"UNMAPPED", "Blockchain"}
Addresses == {"0xA", "0xB"}
Hashes == {"0xh1"}
AtTimes == {100000}
Statuses == {200, 429, 404, 500}

\* offsets of a point's timestamp from at_time, in ms:
\* 2h before, equal, exactly 1h after, 1h and 1ms after, 2h after
OffsetsMs == {0 - 7200000, 0, 3600000, 3600001, 7200000}
PointTimesMs == {at * MS_PER_SECOND + d : at \in AtTimes, d \in OffsetsMs}
PointPrices == {1, 2, 3}
Points == PointTimesMs \X PointPrices

SeqsUpTo(S, n) == UNION {[1..k -> S] : k \in 0..n}

NoBody == [has_prices |-> FALSE, prices |-> <<>>]
Bodies == {NoBody} \cup
          {[has_prices |-> TRUE, prices |-> s] : s \in SeqsUpTo(Points, MaxSeries)}

\* what requests.get can produce: a status with a body, or an exception of its own
HttpResponses ==
    {[t |-> "response", status_code |-> 200, body |-> b] : b \in Bodies}
    \cup {[t |-> "response", status_code |-> s, body |-> NoBody] : s \in Statuses \ {200}}
    \cup {[t |-> "exception", status_code |-> 0, body |-> NoBody]}

AmountStrings == { <<"1","2","3",".","4","5">>, <<"7">>, <<".","5">>, <<"a","b","c">>, <<>> }
Swaps == {[has_amount |-> FALSE, amountUSD |-> <<>>]} \cup
         {[has_amount |-> TRUE, amountUSD |-> a] : a \in AmountStrings}
SubgraphResponses ==
    {[t |-> "error", desc |-> <<"502 Server Error">>, has_swaps |-> FALSE, swaps |-> <<>>]}
    \cup {[t |-> "json", desc |-> <<>>, has_swaps |-> FALSE, swaps |-> <<>>]}
    \cup {[t |-> "json", desc |-> <<>>, has_swaps |-> TRUE, swaps |-> s] :
             s \in SeqsUpTo(Swaps, MaxSwaps)}

NoResponse == [t |-> "none", desc |-> <<>>, has_swaps |-> FALSE, swaps |-> <<>>]

\* symbols and naive datetimes given to get_price_of_token; 11:59:30 of
\* 1970-01-01 lies in the last minute before the hour that the DST zone repeats
Symbols == { <<"e", "t", "h">>, <<"B", "t", "c">> }
NaiveTimes == {39570, 43170, 100000}

\* a candle is a prefix of [ts, open, high, low, close, volume, close_ts, ...]
CloseStrings == { <<"1","8","5","0",".","2","3">>, <<"7">>, <<"a","b","c">> }
CandleOf(close) ==
    << <<"1","0","0","0">>, <<"1","0",".","5">>, <<"1","2">>, <<"9",".","2","5">>,
       close, <<"3","0","0">>, <<"1","0","5","9">>, <<"4","4">> >>
Candles == {SubSeq(CandleOf(c), 1, k) : c \in CloseStrings, k \in 0..MaxCandleLen}
KlinesResponses ==
    {[t |-> "response", status_code |-> 200, body |-> b] :
         b \in SeqsUpTo(Candles, MaxCandles)}
    \cup {[t |-> "response", status_code |-> s, body |-> <<>>] : s \in Statuses \ {200}}
    \cup {[t |-> "exception", status_code |-> 0, body |-> <<>>]}

NoParams == [symbol |-> <<>>, interval |-> "", startTime |-> 0, endTime |-> 0,
             limit |-> 0]

----------------------------------------------------------------------------
(* Local time: datetime.fromtimestamp and naive datetime.timestamp *)

\* a zone is the offset in force before dst_end and the one in force from it on
\* (TZ=UTC, and TZ="AAA0BBB,J300/0,J1/12" whose DST ends 1970-01-01 11:00 UTC)
TimeZones ==
    {[name |-> "UTC", dst_offset |-> 0, std_offset |-> 0, dst_end |-> 0],
     [name |-> "AAA0BBB,J300/0,J1/12", dst_offset |-> 3600, std_offset |-> 0,
      dst_end |-> 39600]}

utcoffset(t) == IF t < tz.dst_end THEN tz.dst_offset ELSE tz.std_offset

\* datetime.fromtimestamp(t): the local wall-clock reading of instant t
fromtimestamp(t) == t + utcoffset(t)

\* naive_datetime.timestamp(): the instant of a wall-clock reading; a reading
\* that occurs twice denotes its first occurrence (fold = 0)
timestamp(wall) ==
    IF wall - tz.dst_offset < tz.dst_end
    THEN wall - tz.dst_offset
    ELSE wall - tz.std_offset

----------------------------------------------------------------------------
(* Outcomes *)

None == [kind |-> "none"]
Return(v) == [kind |-> "return", value |-> v]
Raise(e, m, o) == [kind |-> "raise", exc |-> e, msg |-> m, origin |-> o]

----------------------------------------------------------------------------
(* float(str), for the decimal literals digits[.digits] and [digits].digits *)

Digits == {"0", "1", "2", "3", "4", "5", "6", "7", "8", "9"}

DigitVal(c) ==
    CASE c = "0" -> 0 [] c = "1" -> 1 [] c = "2" -> 2 [] c = "3" -> 3
      [] c = "4" -> 4 [] c = "5" -> 5 [] c = "6" -> 6 [] c = "7" -> 7
      [] c = "8" -> 8 [] c = "9" -> 9

RECURSIVE DigitsToInt(_)
DigitsToInt(s) ==
    IF s = <<>> THEN 0
    ELSE DigitsToInt(SubSeq(s, 1, Len(s) - 1)) * 10 + DigitVal(s[Len(s)])

\* value in hundredths; literals carry at most two fractional digits
float(s) ==
    LET dots == {i \in 1..Len(s) : s[i] = "."}
        wellformed == /\ \A i \in 1..Len(s) : s[i] \in Digits \cup {"."}
                      /\ Cardinality(dots) <= 1
                      /\ \E i \in 1..Len(s) : s[i] \in Digits
        dot == IF dots = {} THEN Len(s) + 1 ELSE CHOOSE i \in dots : TRUE
        whole == SubSeq(s, 1, dot - 1)
        frac == SubSeq(s, dot + 1, Len(s))
        frac2 == SubSeq(frac \o <<"0", "0">>, 1, 2)
    IN  IF wellformed
        THEN [ok |-> TRUE, value |-> DigitsToInt(whole) * 100 + DigitsToInt(frac2)]
        ELSE [ok |-> FALSE, value |-> 0]

----------------------------------------------------------------------------
(* UniswapPriceProvider *)

\* _get_price_from_subgraph reading the last swap record, swaps[-1]
_get_price_from_subgraph_last(self, response) ==
    IF response.t = "error"
    THEN Raise("TransportError", response.desc, self)
    ELSE IF ~response.has_swaps
    THEN Raise("MissingDataError", <<>>, self)
    ELSE IF response.swaps = <<>>
    THEN Raise("IndexError", <<"list index out of range">>, self)
    ELSE LET only_swap == response.swaps[Len(response.swaps)]
         IN  IF ~only_swap.has_amount
             THEN Raise("KeyError", <<"'amountUSD'">>, self)
             ELSE LET price == float(only_swap.amountUSD)
                  IN  IF price.ok
                      THEN Return(price.value)
                      ELSE Raise("ValueError",
                                 <<"could not convert string to float: ", "'">>
                                     \o only_swap.amountUSD \o <<"'">>, self)

_get_price_from_subgraph(self, response) ==
    IF response.t = "error"
    THEN Raise("TransportError", response.desc, self)
    ELSE IF ~response.has_swaps
    THEN Raise("MissingDataError", <<>>, self)
    ELSE IF response.swaps = <<>>
    THEN Raise("IndexError", <<"list index out of range">>, self)
    ELSE LET only_swap == response.swaps[1]
         IN  IF ~only_swap.has_amount
             THEN Raise("KeyError", <<"'amountUSD'">>, self)
             ELSE LET price == float(only_swap.amountUSD)
                  IN  IF price.ok
                      THEN Return(price.value)
                      ELSE Raise("ValueError",
                                 <<"could not convert string to float: ", "'">>
                                     \o only_swap.amountUSD \o <<"'">>, self)

\* str(exception)
str(exception) == exception.msg

\* the wrapper catching MissingDataError only
UniswapPriceProvider_get_usd_value_of_transaction_narrow(self, response) ==
    LET r == _get_price_from_subgraph(self, response)
    IN  IF r.kind = "raise" /\ r.exc = "MissingDataError"
        THEN Raise("CantExtractUsdValueError", str(r), self)
        ELSE r

UniswapPriceProvider_get_usd_value_of_transaction(self, response) ==
    LET r == _get_price_from_subgraph(self, response)
    IN  IF r.kind = "raise"
        THEN Raise("CantExtractUsdValueError", str(r), self)
        ELSE r

----------------------------------------------------------------------------
(* http_utils and CoingeckoPriceProvider *)

request(resp) ==
    IF resp.t = "exception"
    THEN Raise("ConnectionError", <<"connection failed">>, "requests")
    ELSE IF resp.status_code = HTTP_OK
    THEN Return(resp.body)
    ELSE Raise("RequestError", resp.status_code, "http_utils")

\* blockchain.ETHEREUM can be looked up on the argument
has_ETHEREUM(blockchain) == blockchain \in Blockchain \cup {"Blockchain"}

\* match blockchain: case blockchain.ETHEREUM: the lookup fails on an argument
\* without that attribute (of the inputs, the str); with no case matching the
\* method returns None
_get_blockchain_id(blockchain) ==
    IF ~has_ETHEREUM(blockchain)
    THEN Raise("AttributeError", <<"'str' object has no attribute 'ETHEREUM'">>, "coingecko")
    ELSE IF blockchain = "ETHEREUM"
    THEN Return("ethereum")
    ELSE Return("None")

\* int((datetime.fromtimestamp(at_time) - timedelta(days=1)).timestamp())
start_timestamp(at_time) == timestamp(fromtimestamp(at_time) - DAY_SECONDS)

build_url(contract_address, at_time, blockchain) ==
    [chain |-> _get_blockchain_id(blockchain).value, contract |-> contract_address,
     from |-> start_timestamp(at_time), to |-> at_time]

\* datetime.fromtimestamp(price_time) - datetime.fromtimestamp(at_time), in ms
time_diff(last_price_array, at_time) ==
    (last_price_array[1] + utcoffset(last_price_array[1] \div MS_PER_SECOND) * MS_PER_SECOND)
        - fromtimestamp(at_time) * MS_PER_SECOND

is_stale(last_price_array, at_time) ==
    time_diff(last_price_array, at_time) > HOUR_MS

RECURSIVE MaxPrice(_)
MaxPrice(prices) ==
    IF Len(prices) = 1 THEN prices[1][2]
    ELSE LET m == MaxPrice(SubSeq(prices, 2, Len(prices)))
         IN  IF prices[1][2] > m THEN prices[1][2] ELSE m

\* price_of_json selecting the highest price of the series
price_of_json_max(price_response_json, at_time) ==
    IF ~price_response_json.has_prices
    THEN [outcome |-> Raise("KeyError", <<"'prices'">>, "coingecko"), printed |-> <<>>]
    ELSE LET prices == price_response_json.prices
         IN  IF prices = <<>>
             THEN [outcome |-> Raise("MissingDataError", <<>>, "coingecko"),
                   printed |-> <<>>]
             ELSE LET last_price_array == prices[Len(prices)]
                  IN  [outcome |-> Return(MaxPrice(prices)),
                       printed |-> IF is_stale(last_price_array, at_time)
                                   THEN <<time_diff(last_price_array, at_time)>>
                                   ELSE <<>>]

\* price_of_json without the emptiness test: prices[-1] raises IndexError
price_of_json_unchecked(price_response_json, at_time) ==
    IF ~price_response_json.has_prices
    THEN [outcome |-> Raise("KeyError", <<"'prices'">>, "coingecko"), printed |-> <<>>]
    ELSE LET prices == price_response_json.prices
         IN  IF prices = <<>>
             THEN [outcome |-> Raise("IndexError", <<"list index out of range">>,
                                     "coingecko"),
                   printed |-> <<>>]
             ELSE LET last_price_array == prices[Len(prices)]
                  IN  [outcome |-> Return(last_price_array[2]),
                       printed |-> IF is_stale(last_price_array, at_time)
                                   THEN <<time_diff(last_price_array, at_time)>>
                                   ELSE <<>>]

\* what get_price_of_contract_in_usd does with the decoded body
price_of_json(price_response_json, at_time) ==
    IF ~price_response_json.has_prices
    THEN [outcome |-> Raise("KeyError", <<"'prices'">>, "coingecko"), printed |-> <<>>]
    ELSE LET prices == price_response_json.prices
         IN  IF prices = <<>>
             THEN [outcome |-> Raise("MissingDataError", <<>>, "coingecko"),
                   printed |-> <<>>]
             ELSE LET last_price_array == prices[Len(prices)]
                  IN  [outcome |-> Return(last_price_array[2]),
                       printed |-> IF is_stale(last_price_array, at_time)
                                   THEN <<time_diff(last_price_array, at_time)>>
                                   ELSE <<>>]

\* _request_price_json without the 429 case: every RequestError is raised
_request_price_json_no_retry(contract_address, resp) ==
    LET r == request(resp)
    IN  IF r.kind = "return"
        THEN [next |-> "return", outcome |-> r, sleep |-> 0]
        ELSE IF r.exc = "RequestError"
        THEN [next |-> "raise", sleep |-> 0,
              outcome |-> Raise("CantFindTokenPriceError",
                                [address |-> contract_address, req_code |-> r.msg],
                                "coingecko")]
        ELSE [next |-> "raise", outcome |-> r, sleep |-> 0]

\* _request_price_json retrying on every RequestError, whatever its status
_request_price_json_retry_all(contract_address, resp) ==
    LET r == request(resp)
    IN  IF r.kind = "return"
        THEN [next |-> "return", outcome |-> r, sleep |-> 0]
        ELSE IF r.exc = "RequestError"
        THEN [next |-> "retry", outcome |-> None, sleep |-> BACKOFF]
        ELSE [next |-> "raise", outcome |-> r, sleep |-> 0]

\* _request_price_json without the continue: it sleeps on 429 and then raises
_request_price_json_no_continue(contract_address, resp) ==
    LET r == request(resp)
    IN  IF r.kind = "return"
        THEN [next |-> "return", outcome |-> r, sleep |-> 0]
        ELSE IF r.exc = "RequestError"
        THEN [next |-> "raise",
              sleep |-> IF r.msg = RATE_LIMITED THEN BACKOFF ELSE 0,
              outcome |-> Raise("CantFindTokenPriceError",
                                [address |-> contract_address, req_code |-> r.msg],
                                "coingecko")]
        ELSE [next |-> "raise", outcome |-> r, sleep |-> 0]

----------------------------------------------------------------------------
(* BinancePriceProvider *)

LowerCase == <<"a", "b", "c", "d", "e", "f", "g", "h", "i", "j", "k", "l", "m",
               "n", "o", "p", "q", "r", "s", "t", "u", "v", "w", "x", "y", "z">>
UpperCase == <<"A", "B", "C", "D", "E", "F", "G", "H", "I", "J", "K", "L", "M",
               "N", "O", "P", "Q", "R", "S", "T", "U", "V", "W", "X", "Y", "Z">>

\* str.upper()
upper(symbol) ==
    [i \in 1..Len(symbol) |->
        IF \E k \in 1..Len(LowerCase) : LowerCase[k] = symbol[i]
        THEN UpperCase[CHOOSE k \in 1..Len(LowerCase) : LowerCase[k] = symbol[i]]
        ELSE symbol[i]]

symbol_with_usdt(symbol) == upper(symbol) \o <<"U", "S", "D", "T">>

\* int(at_time.timestamp() * 1000)
start_time(at_time) == timestamp(at_time) * MS_PER_SECOND

\* int((at_time + timedelta(minutes=1)).timestamp() * 1000)
end_time(at_time) == timestamp(at_time + MINUTE_SECONDS) * MS_PER_SECOND

klines_params(symbol, at_time) ==
    [symbol |-> symbol_with_usdt(symbol), interval |-> "1m",
     startTime |-> start_time(at_time), endTime |-> end_time(at_time),
     limit |-> KLINES_LIMIT]

\* the try block reading the low price, single_candle_info[3]
close_price_low(resp) ==
    LET r == request(resp)
    IN  IF r.kind = "raise" THEN r
        ELSE LET result_json == r.value
             IN  IF result_json = <<>>
                 THEN Raise("IndexError", <<"list index out of range">>, "binance")
                 ELSE LET single_candle_info == result_json[1]
                      IN  IF Len(single_candle_info) < CLOSE_FIELD - 1
                          THEN Raise("IndexError", <<"list index out of range">>,
                                     "binance")
                          ELSE LET close_price ==
                                       float(single_candle_info[CLOSE_FIELD - 1])
                               IN  IF close_price.ok
                                   THEN Return(close_price.value)
                                   ELSE Raise("ValueError",
                                              <<"could not convert string to float: ",
                                                "'">>
                                                  \o single_candle_info[CLOSE_FIELD - 1]
                                                  \o <<"'">>, "binance")

\* the try block of get_price_of_token: the value returned or the error raised in it
close_price(resp) ==
    LET r == request(resp)
    IN  IF r.kind = "raise" THEN r
        ELSE LET result_json == r.value
             IN  IF result_json = <<>>
                 THEN Raise("IndexError", <<"list index out of range">>, "binance")
                 ELSE LET single_candle_info == result_json[1]
                      IN  IF Len(single_candle_info) < CLOSE_FIELD
                          THEN Raise("IndexError", <<"list index out of range">>,
                                     "binance")
                          ELSE LET close_price_ == float(single_candle_info[CLOSE_FIELD])
                               IN  IF close_price_.ok
                                   THEN Return(close_price_.value)
                                   ELSE Raise("ValueError",
                                              <<"could not convert string to float: ",
                                                "'">>
                                                  \o single_candle_info[CLOSE_FIELD]
                                                  \o <<"'">>, "binance")

\* the except clause catching IndexError and ValueError only
price_of_token_narrow(resp) ==
    LET r == close_price(resp)
    IN  IF r.kind = "raise" /\ r.exc \in {"IndexError", "ValueError"}
        THEN Raise("MissingDataError", <<r>>, "binance")
        ELSE r

\* try/except of get_price_of_token: raise exceptions.MissingDataError(e)
price_of_token(resp) ==
    LET r == close_price(resp)
    IN  IF r.kind = "raise"
        THEN Raise("MissingDataError", <<r>>, "binance")
        ELSE r

----------------------------------------------------------------------------
(* CoingeckoPriceProvider._request_price_json *)

\* _request_price_json sleeping one time unit instead of three
_request_price_json_short_sleep(contract_address, resp) ==
    LET r == request(resp)
    IN  IF r.kind = "return"
        THEN [next |-> "return", outcome |-> r, sleep |-> 0]
        ELSE IF r.exc = "RequestError"
        THEN IF r.msg = RATE_LIMITED
             THEN [next |-> "retry", outcome |-> None, sleep |-> 1]
             ELSE [next |-> "raise", sleep |-> 0,
                   outcome |-> Raise("CantFindTokenPriceError",
                                     [address |-> contract_address, req_code |-> r.msg],
                                     "coingecko")]
        ELSE [next |-> "raise", outcome |-> r, sleep |-> 0]

\* _request_price_json giving up on 429 with a failure that names no status
_request_price_json_gives_up(contract_address, resp) ==
    LET r == request(resp)
    IN  IF r.kind = "return"
        THEN [next |-> "return", outcome |-> r, sleep |-> 0]
        ELSE IF r.exc = "RequestError"
        THEN [next |-> "raise", sleep |-> 0,
              outcome |-> Raise("CantFindTokenPriceError",
                                [address |-> contract_address,
                                 req_code |-> IF r.msg = RATE_LIMITED THEN 0 ELSE r.msg],
                                "coingecko")]
        ELSE [next |-> "raise", outcome |-> r, sleep |-> 0]

\* one iteration of the while True loop of _request_price_json:
\* the value returned, the exception raised, or "retry" after time.sleep(3)
_request_price_json(contract_address, resp) ==
    LET r == request(resp)
    IN  IF r.kind = "return"
        THEN [next |-> "return", outcome |-> r, sleep |-> 0]
        ELSE IF r.exc = "RequestError"
        THEN IF r.msg = RATE_LIMITED
             THEN [next |-> "retry", outcome |-> None, sleep |-> BACKOFF]
             ELSE [next |-> "raise", sleep |-> 0,
                   outcome |-> Raise("CantFindTokenPriceError",
                                     [address |-> contract_address, req_code |-> r.msg],
                                     "coingecko")]
        ELSE [next |-> "raise", outcome |-> r, sleep |-> 0]

----------------------------------------------------------------------------
(* State machine *)

Init ==
    /\ pc = "idle"
    /\ call = "none"
    /\ args = [contract_address |-> "", transaction_hash |-> "", at_time |-> 0,
               blockchain |-> ""]
    /\ url = [chain |-> "", contract |-> "", from |-> 0, to |-> 0]
    /\ requests = 0
    /\ sleeps = 0
    /\ slept = 0
    /\ responses = <<>>
    /\ json = NoBody
    /\ stdout = <<>>
    /\ debug_log = <<>>
    /\ queried = <<>>
    /\ v3_response = NoResponse
    /\ v2_response = NoResponse
    /\ v3_outcome = None
    /\ v2_outcome = None
    /\ result = None
    /\ tz \in TimeZones
    /\ params = NoParams
    /\ klines = <<>>

uni_vars == <<debug_log, queried, v3_response, v2_response, v3_outcome, v2_outcome>>
cg_vars == <<url, requests, sleeps, slept, responses, json, stdout>>
bn_vars == <<params, klines>>

\* get_price_of_contract_in_usd, up to the call of _request_price_json, or to
\* the failure of _get_blockchain_id
get_price_of_contract_in_usd(contract_address, at_time, blockchain) ==
    /\ pc = "idle"
    /\ call' = "coingecko"
    /\ args' = [contract_address |-> contract_address, transaction_hash |-> "",
                at_time |-> at_time, blockchain |-> blockchain]
    /\ IF _get_blockchain_id(blockchain).kind = "raise"
       THEN /\ pc' = "done"
            /\ result' = _get_blockchain_id(blockchain)
            /\ UNCHANGED url
       ELSE /\ pc' = "cg_loop"
            /\ url' = build_url(contract_address, at_time, blockchain)
            /\ UNCHANGED result
    /\ UNCHANGED <<requests, sleeps, slept, responses, json, stdout>>
    /\ UNCHANGED uni_vars
    /\ UNCHANGED <<tz, bn_vars>>

\* one request of the retry loop answered by resp; on a returned body the rest
\* of get_price_of_contract_in_usd runs to its end
request_price(resp) ==
    /\ pc = "cg_loop"
    /\ LET step == _request_price_json(args.contract_address, resp)
           done == price_of_json(step.outcome.value, args.at_time)
       IN  /\ step.next = "retry" => sleeps < MaxRetries
           /\ requests' = requests + 1
           /\ responses' = Append(responses,
                                  IF resp.t = "response" THEN resp.status_code ELSE 0)
           /\ sleeps' = IF step.sleep > 0 THEN sleeps + 1 ELSE sleeps
           /\ slept' = slept + step.sleep
           /\ IF step.next = "retry"
              THEN UNCHANGED <<pc, json, stdout, result>>
              ELSE IF step.next = "raise"
              THEN /\ pc' = "done"
                   /\ result' = step.outcome
                   /\ UNCHANGED <<json, stdout>>
              ELSE /\ pc' = "done"
                   /\ json' = step.outcome.value
                   /\ stdout' = stdout \o done.printed
                   /\ result' = done.outcome
    /\ UNCHANGED <<call, args, url>>
    /\ UNCHANGED uni_vars
    /\ UNCHANGED <<tz, bn_vars>>

\* UniswapTransactionValueUsdProvider.get_usd_value_of_transaction is entered
get_usd_value_of_transaction(transaction_hash, blockchain) ==
    /\ pc = "idle"
    /\ pc' = "v3"
    /\ call' = "uniswap"
    /\ args' = [contract_address |-> "", transaction_hash |-> transaction_hash,
                at_time |-> 0, blockchain |-> blockchain]
    /\ UNCHANGED result
    /\ UNCHANGED cg_vars
    /\ UNCHANGED uni_vars
    /\ UNCHANGED <<tz, bn_vars>>

\* query_v3 without the return: the v2 provider is queried whatever v3 answered
query_v3_no_return(response) ==
    /\ pc = "v3"
    /\ LET r == UniswapPriceProvider_get_usd_value_of_transaction("v3", response)
       IN  /\ queried' = Append(queried, "v3")
           /\ v3_response' = response
           /\ v3_outcome' = r
           /\ pc' = "v2"
           /\ UNCHANGED <<result, debug_log>>
    /\ UNCHANGED <<call, args, v2_response, v2_outcome>>
    /\ UNCHANGED cg_vars
    /\ UNCHANGED <<tz, bn_vars>>

\* the try block: the v3 provider is queried and its subgraph answers response
query_v3(response) ==
    /\ pc = "v3"
    /\ LET r == UniswapPriceProvider_get_usd_value_of_transaction("v3", response)
       IN  /\ queried' = Append(queried, "v3")
           /\ v3_response' = response
           /\ v3_outcome' = r
           /\ IF r.kind = "return"
              THEN /\ pc' = "done"
                   /\ result' = r
                   /\ UNCHANGED debug_log
              ELSE IF r.exc = "CantExtractUsdValueError"
              THEN /\ pc' = "v2"
                   /\ debug_log' = Append(debug_log, <<args.transaction_hash, str(r)>>)
                   /\ UNCHANGED result
              ELSE /\ pc' = "done"
                   /\ result' = r
                   /\ UNCHANGED debug_log
    /\ UNCHANGED <<call, args, v2_response, v2_outcome>>
    /\ UNCHANGED cg_vars
    /\ UNCHANGED <<tz, bn_vars>>

\* query_v2 whose value is dropped: the v3 failure is raised after the v2 query
query_v2_dropped(response) ==
    /\ pc = "v2"
    /\ LET r == UniswapPriceProvider_get_usd_value_of_transaction("v2", response)
       IN  /\ queried' = Append(queried, "v2")
           /\ v2_response' = response
           /\ v2_outcome' = r
           /\ result' = v3_outcome
           /\ pc' = "done"
    /\ UNCHANGED <<call, args, debug_log, v3_response, v3_outcome>>
    /\ UNCHANGED cg_vars
    /\ UNCHANGED <<tz, bn_vars>>

\* query_v2 raising the first failure when the v2 query fails as well
query_v2_first_error(response) ==
    /\ pc = "v2"
    /\ LET r == UniswapPriceProvider_get_usd_value_of_transaction("v2", response)
       IN  /\ queried' = Append(queried, "v2")
           /\ v2_response' = response
           /\ v2_outcome' = r
           /\ result' = IF r.kind = "raise" THEN v3_outcome ELSE r
           /\ pc' = "done"
    /\ UNCHANGED <<call, args, debug_log, v3_response, v3_outcome>>
    /\ UNCHANGED cg_vars
    /\ UNCHANGED <<tz, bn_vars>>

\* after the except clause: the v2 provider is queried and its outcome is the call's
query_v2(response) ==
    /\ pc = "v2"
    /\ LET r == UniswapPriceProvider_get_usd_value_of_transaction("v2", response)
       IN  /\ queried' = Append(queried, "v2")
           /\ v2_response' = response
           /\ v2_outcome' = r
           /\ result' = r
           /\ pc' = "done"
    /\ UNCHANGED <<call, args, debug_log, v3_response, v3_outcome>>
    /\ UNCHANGED cg_vars
    /\ UNCHANGED <<tz, bn_vars>>

\* BinancePriceProvider.get_price_of_token: one request answered by resp
get_price_of_token(symbol, at_time, resp) ==
    /\ pc = "idle"
    /\ pc' = "done"
    /\ call' = "binance"
    /\ args' = [symbol |-> symbol, at_time |-> at_time]
    /\ params' = klines_params(symbol, at_time)
    /\ requests' = requests + 1
    /\ responses' = Append(responses,
                           IF resp.t = "response" THEN resp.status_code ELSE 0)
    /\ klines' = IF request(resp).kind = "return" THEN request(resp).value ELSE klines
    /\ result' = price_of_token(resp)
    /\ UNCHANGED <<url, sleeps, slept, json, stdout, tz>>
    /\ UNCHANGED uni_vars

Next ==
    \/ \E a \in Addresses, t \in AtTimes, b \in BlockchainInputs :
           get_price_of_contract_in_usd(a, t, b)
    \/ pc = "cg_loop" /\ \E resp \in HttpResponses : request_price(resp)
    \/ \E h \in Hashes, b \in Blockchain : get_usd_value_of_transaction(h, b)
    \/ pc = "v3" /\ \E response \in SubgraphResponses : query_v3(response)
    \/ pc = "v2" /\ \E response \in SubgraphResponses : query_v2(response)
    \/ pc = "idle" /\ \E sym \in Symbols, t \in NaiveTimes, resp \in KlinesResponses :
                          get_price_of_token(sym, t, resp)

Spec == Init /\ [][Next]_vars

\* The contract-price call alone, answered with series of at most one point.
\* The call is synchronous and keeps running: a request that can be answered
\* is answered.
LiveResponses == {r \in HttpResponses : Len(r.body.prices) <= 1}
RetryLoopStep == pc = "cg_loop" /\ \E resp \in LiveResponses : request_price(resp)
LiveNext ==
    \/ \E a \in Addresses, t \in AtTimes, b \in BlockchainInputs :
           get_price_of_contract_in_usd(a, t, b)
    \/ RetryLoopStep
LiveSpec == Init /\ [][LiveNext]_vars /\ WF_vars(RetryLoopStep)

TypeOK ==
    /\ pc \in {"idle", "cg_loop", "v3", "v2", "done"}
    /\ call \in {"none", "coingecko", "uniswap", "binance"}
    /\ requests \in 0..(MaxRetries + 1)
    /\ sleeps \in 0..MaxRetries
    /\ result.kind \in {"none", "return", "raise"}

----------------------------------------------------------------------------
(* Helpers of the properties *)

Last(s) == s[Len(s)]
Front(s) == SubSeq(s, 1, Len(s) - 1)
All429(s) == \A i \in 1..Len(s) : s[i] = 429
Count429(s) == Cardinality({i \in 1..Len(s) : s[i] = 429})
Increasing(prices) ==
    \A i \in 1..Len(prices), j \in 1..Len(prices) : i < j => prices[i][1] < prices[j][1]
Abs(x) == IF x < 0 THEN 0 - x ELSE x
CgDone == call = "coingecko" /\ pc = "done"
\* the call got past _get_blockchain_id and entered _request_price_json
InLoop == call = "coingecko" /\ _get_blockchain_id(args.blockchain).kind = "return"
UniDone == call = "uniswap" /\ pc = "done"
\* the 200 response that ended the loop carried a non-empty series
GotSeries == /\ CgDone /\ responses # <<>> /\ Last(responses) = 200
             /\ json.has_prices /\ json.prices # <<>>
\* a subgraph answer from which no USD amount can be read
Unreadable(response) ==
    \/ response.t = "error"
    \/ ~response.has_swaps
    \/ response.swaps = <<>>
    \/ ~response.swaps[1].has_amount
    \/ ~float(response.swaps[1].amountUSD).ok

----------------------------------------------------------------------------
(* Properties *)

\* C1: when the transport answers k consecutive 429 failures and then a 200
\* with a non-empty prices series, the call performs exactly k sleeps, issues
\* exactly k+1 requests and returns a price; while only 429s have been answered
\* the call has not failed and is still in the loop.
C1_RetryThenSuccess ==
    InLoop =>
        /\ All429(responses) =>
               /\ pc = "cg_loop" /\ result = None
               /\ sleeps = Len(responses) /\ requests = Len(responses)
        /\ (GotSeries /\ All429(Front(responses))) =>
               /\ sleeps = Len(responses) - 1
               /\ requests = Len(responses)
               /\ result.kind = "return"

C1_Witness ==
    /\ CgDone /\ responses = <<429, 429, 200>> /\ json.prices # <<>>
    /\ sleeps = 2 /\ requests = 3 /\ result.kind = "return"

\* C2: a non-success status other than 429 ends the call at once with
\* CantFindTokenPriceError carrying the address and that status: no sleep follows
\* it and no further request is issued (no sleep at all when it comes first).
C2_OtherStatusFailsAtOnce ==
    (call = "coingecko" /\ responses # <<>> /\ Last(responses) \notin {0, 200, 429}) =>
        /\ pc = "done"
        /\ result.kind = "raise"
        /\ result.exc = "CantFindTokenPriceError"
        /\ result.msg = [address |-> args.contract_address,
                         req_code |-> Last(responses)]
        /\ requests = Len(responses)
        /\ sleeps = Count429(Front(responses))
        /\ Len(responses) = 1 => sleeps = 0 /\ slept = 0

C2_Witness ==
    /\ CgDone /\ responses = <<404>> /\ sleeps = 0 /\ requests = 1
    /\ result.kind = "raise" /\ result.exc = "CantFindTokenPriceError"

\* C3: if the v3 query fails with CantExtractUsdValueError and the v2 query
\* succeeds with value x, the composite call returns x.
C3_FallbackReturnsV2 ==
    (/\ UniDone
     /\ v3_outcome.kind = "raise" /\ v3_outcome.exc = "CantExtractUsdValueError"
     /\ v2_outcome.kind = "return") =>
        /\ result.kind = "return"
        /\ result.value = v2_outcome.value
        /\ result.value = float(v2_response.swaps[1].amountUSD).value

C3_Witness ==
    /\ UniDone /\ v3_outcome.kind = "raise" /\ v2_outcome.kind = "return"
    /\ v2_response.swaps[1].amountUSD = <<"1", "2", "3", ".", "4", "5">>
    /\ result = Return(12345)

\* C4: if both queries fail, the composite call raises the failure produced by
\* the v2 provider, not the one produced by v3.
C4_BothFailRaisesV2 ==
    (UniDone /\ v3_outcome.kind = "raise" /\ v2_outcome.kind = "raise") =>
        /\ result = v2_outcome
        /\ result.origin = "v2"
        /\ result.msg = str(_get_price_from_subgraph("v2", v2_response))

C4_Witness ==
    /\ UniDone /\ v3_outcome.kind = "raise" /\ v2_outcome.kind = "raise"
    /\ v3_outcome.msg # v2_outcome.msg
    /\ result.kind = "raise" /\ result.origin = "v2"

\* C5: the v3 provider is attempted first and the v2 provider is queried only
\* after the v3 attempt has failed; when v3 succeeds its value is returned and
\* v2 is never queried.
C5_NewestFirst ==
    call = "uniswap" =>
        /\ queried \in {<<>>, <<"v3">>, <<"v3", "v2">>}
        /\ pc = "done" => queried # <<>>
        /\ v2_outcome # None => v3_outcome.kind = "raise"
        /\ Len(queried) = 2 => v3_outcome.kind = "raise"
        /\ v3_outcome.kind = "return" =>
               /\ pc = "done" /\ result = v3_outcome
               /\ queried = <<"v3">> /\ v2_outcome = None /\ v2_response = NoResponse

C5_Witness ==
    /\ UniDone /\ v3_outcome.kind = "return" /\ result = v3_outcome
    /\ queried = <<"v3">>

\* C6: a 429 never ends the call: the call never terminates with RequestError
\* nor with CantFindTokenPriceError reporting status 429, and after a 429 the
\* call has slept once more and is back in the loop.
C6_RateLimitNeverSurfaces ==
    call = "coingecko" =>
        /\ result.kind = "raise" =>
               /\ result.exc # "RequestError"
               /\ result.exc = "CantFindTokenPriceError" => result.msg.req_code # 429
               /\ responses # <<>> => Last(responses) # 429
        /\ (responses # <<>> /\ Last(responses) = 429) =>
               /\ pc = "cg_loop" /\ result = None
               /\ sleeps = Count429(responses)
               /\ slept = BACKOFF * sleeps

C6_Witness ==
    /\ CgDone /\ responses = <<429, 429, 500>> /\ sleeps = 2
    /\ result.kind = "raise" /\ result.msg.req_code = 500

\* C7: every failure of a subgraph provider (no 'swaps' field, empty swaps,
\* record without amountUSD or with a non-numeric one, transport failure), and
\* every failure of the composite, is a CantExtractUsdValueError whose message is
\* the description of the original error.
C7_FailuresNormalized ==
    call = "uniswap" =>
        /\ \A p \in {"v3", "v2"} :
               LET outcome == IF p = "v3" THEN v3_outcome ELSE v2_outcome
                   response == IF p = "v3" THEN v3_response ELSE v2_response
               IN  outcome # None =>
                       /\ Unreadable(response) <=> outcome.kind = "raise"
                       /\ outcome.kind = "raise" =>
                              /\ outcome.exc = "CantExtractUsdValueError"
                              /\ outcome.msg =
                                     str(_get_price_from_subgraph(p, response))
        /\ result.kind = "raise" =>
               /\ result.exc = "CantExtractUsdValueError"
               /\ result \in {v3_outcome, v2_outcome}

C7_Witness ==
    /\ UniDone
    /\ v3_response.t = "json" /\ v3_response.has_swaps /\ v3_response.swaps = <<>>
    /\ v3_outcome.msg = <<"list index out of range">>
    /\ v2_response.t = "error"
    /\ result = Raise("CantExtractUsdValueError", <<"502 Server Error">>, "v2")

\* C8: given a series with increasing timestamps the call returns the price of
\* the last point, not that of an earlier point and not the maximum.
C8_LastPointPrice ==
    (GotSeries /\ Increasing(json.prices)) =>
        result = Return(Last(json.prices)[2])

C8_Witness ==
    /\ GotSeries /\ Increasing(json.prices) /\ Len(json.prices) = 3
    /\ json.prices[1][2] = 2 /\ json.prices[2][2] = 3 /\ json.prices[3][2] = 1
    /\ result = Return(1)

\* C9: a 200 response whose prices list is empty makes the call fail with
\* MissingDataError, however many 429 retries preceded it.
C9_EmptySeriesMissingData ==
    (/\ CgDone /\ responses # <<>> /\ Last(responses) = 200
     /\ json.has_prices /\ json.prices = <<>>) =>
        /\ result.kind = "raise"
        /\ result.exc = "MissingDataError"
        /\ sleeps = Len(responses) - 1

C9_Witness ==
    /\ CgDone /\ responses = <<429, 429, 200>>
    /\ json.has_prices /\ json.prices = <<>>
    /\ result.kind = "raise" /\ result.exc = "MissingDataError"

\* C10: whenever |last_point_time - at_time| exceeds 1 hour the call returns the
\* last point's price and a staleness diagnostic is recorded; when the
\* difference is at most 1 hour no diagnostic is recorded.
C10_StalenessDiagnostic ==
    GotSeries =>
        /\ result = Return(Last(json.prices)[2])
        /\ (Abs(Last(json.prices)[1] - args.at_time * MS_PER_SECOND) > HOUR_MS)
               <=> stdout # <<>>

----------------------------------------------------------------------------
(* Properties of the remaining error handling, windows and the retry loop *)

DomainErrors == {"MissingDataError", "CantFindTokenPriceError",
                 "CantExtractUsdValueError", "UnsupportedBlockchain"}
\* the values for which _get_blockchain_id yields a chain slug
MappedBlockchains == {b \in BlockchainInputs : /\ _get_blockchain_id(b).kind = "return"
                                               /\ _get_blockchain_id(b).value # "None"}
BnDone == call = "binance" /\ pc = "done"
\* the klines answer holds a first candle whose close field is a number
GotClose == /\ BnDone /\ Last(responses) = 200
            /\ klines # <<>>
            /\ Len(klines[1]) >= 5
            /\ float(klines[1][5]).ok

\* C11: when the blockchain has no entry in the chain-slug mapping the call
\* fails with UnsupportedBlockchain and no request is built or issued.
C11_UnsupportedBlockchain ==
    (call = "coingecko" /\ args.blockchain \notin MappedBlockchains) =>
        /\ pc = "done"
        /\ requests = 0
        /\ result.kind = "raise"
        /\ result.exc = "UnsupportedBlockchain"

\* C12: every failure that reaches the caller of one of the three resolvers is
\* one of the domain error kinds; no RequestError and no lookup error escapes.
C12_TypedFailuresOnly ==
    result.kind = "raise" => result.exc \in DomainErrors

\* C13: get_price_of_token issues one request and never sleeps; it fails exactly
\* on a transport failure (429 included), an empty candle array, a candle that is
\* too short or a non-numeric close field, and every failure is a
\* MissingDataError carrying the original error.
C13_SpotFailuresNormalized ==
    call = "binance" =>
        /\ pc = "done" /\ requests = 1 /\ sleeps = 0 /\ Len(responses) = 1
        /\ result.kind = "raise" <=> ~GotClose
        /\ result.kind = "raise" =>
               /\ result.exc = "MissingDataError"
               /\ Len(result.msg) = 1
               /\ result.msg[1].kind = "raise"
               /\ Last(responses) \notin {0, 200} =>
                      /\ result.msg[1].exc = "RequestError"
                      /\ result.msg[1].msg = Last(responses)
               /\ Last(responses) = 0 => result.msg[1].exc = "ConnectionError"
               /\ (Last(responses) = 200 /\ (klines = <<>> \/ Len(klines[1]) < 5)) =>
                      result.msg[1].exc = "IndexError"
               /\ (Last(responses) = 200 /\ klines # <<>> /\ Len(klines[1]) >= 5) =>
                      result.msg[1].exc = "ValueError"

C13_Witness ==
    /\ BnDone /\ responses = <<429>> /\ sleeps = 0 /\ requests = 1
    /\ result.kind = "raise" /\ result.exc = "MissingDataError"
    /\ result.msg[1].exc = "RequestError" /\ result.msg[1].msg = 429

\* C14: given a first candle [ts, open, high, low, c, vol] the call returns c
\* converted to a number, the 5th element of the first candle, and no other
\* field or candle ("1850.23" yields 1850.23).
C14_ClosePrice ==
    GotClose =>
        /\ result = Return(float(klines[1][5]).value)
        /\ klines[1][5] = <<"1", "8", "5", "0", ".", "2", "3">> =>
               result = Return(185023)

C14_Witness ==
    /\ GotClose /\ Len(klines) = 2 /\ Len(klines[1]) = 6 /\ Len(klines[2]) = 6
    /\ klines[1][5] = <<"1", "8", "5", "0", ".", "2", "3">>
    /\ klines[2][5] = <<"7">>
    /\ result = Return(185023)

\* C15: for every at_time the request asks for the range from at_time - 86400
\* to at_time, on the first request and on every retry.
C15_LookbackWindow ==
    InLoop =>
        /\ url.from = args.at_time - 86400
        /\ url.to = args.at_time

\* C16: the single request carries startTime = at_time in milliseconds,
\* endTime = startTime + 60000, interval 1m and limit 1.
C16_SpotWindow ==
    call = "binance" =>
        /\ requests = 1
        /\ params.startTime = timestamp(args.at_time) * 1000
        /\ params.endTime = params.startTime + 60000
        /\ params.interval = "1m"
        /\ params.limit = 1

\* C17: when the index returns several swap records a provider returns the
\* amountUSD of the first one (not the last, not the sum); when it returns no
\* record the provider fails with CantExtractUsdValueError.
C17_FirstSwapRecord ==
    call = "uniswap" =>
        \A p \in {"v3", "v2"} :
            LET outcome == IF p = "v3" THEN v3_outcome ELSE v2_outcome
                response == IF p = "v3" THEN v3_response ELSE v2_response
                swaps == response.swaps
            IN  (outcome # None /\ response.t = "json" /\ response.has_swaps) =>
                    /\ swaps = <<>> =>
                           /\ outcome.kind = "raise"
                           /\ outcome.exc = "CantExtractUsdValueError"
                    /\ (/\ Len(swaps) >= 2 /\ swaps[1].has_amount
                        /\ float(swaps[1].amountUSD).ok) =>
                           outcome = Return(float(swaps[1].amountUSD).value)

C17_Witness ==
    /\ UniDone /\ Len(v3_response.swaps) = 2
    /\ v3_response.swaps[1].amountUSD = <<"7">>
    /\ v3_response.swaps[2].amountUSD = <<"1", "2", "3", ".", "4", "5">>
    /\ result = Return(700)

\* C18: the retry loop has no cap: as long as every answer was a 429 the call is
\* still looping and has not failed, and once the transport answers something
\* else the call terminates with a value or a failure.
C18_RetryLoopLiveness ==
    /\ [](InLoop /\ All429(responses) =>
              pc = "cg_loop" /\ result = None /\ requests = Len(responses))
    /\ (call = "coingecko") ~> (pc = "done" /\ result # None)
    /\ [](call = "coingecko" /\ responses # <<>> /\ Last(responses) # 429 =>
              pc = "done" /\ result # None)

C18_Witness ==
    /\ CgDone /\ Len(responses) = MaxRetries + 1
    /\ All429(Front(responses)) /\ Last(responses) = 200
    /\ result.kind = "return"

\* C19: in every state of a get_price_of_contract_in_usd call the number of
\* sleeps equals the number of 429 responses received, each sleep lasts 3 time
\* units, a sleep happens only in the step that received a 429, and when the
\* retry loop terminates the number of requests is the number of sleeps plus one.
C19_BackoffAccounting ==
    /\ [](call = "coingecko" =>
              /\ sleeps = Count429(responses)
              /\ slept = 3 * sleeps
              /\ (InLoop /\ pc = "done") => requests = sleeps + 1)
    /\ [][(call = "coingecko" /\ sleeps' # sleeps) =>
              /\ sleeps' = sleeps + 1
              /\ slept' = slept + 3
              /\ responses' = Append(responses, 429)
              /\ requests' = requests + 1]_vars

C19_Witness ==
    /\ CgDone /\ responses = <<429, 429, 404>>
    /\ sleeps = 2 /\ slept = 6 /\ requests = 3

====
